---- MODULE Spec2Model ----
(***************************************************************************)
(* A model of src/regex.cpp: the recursive-descent Parser, the Thompson    *)
(* NFACompiler and the frontier-stepping NFAEngine.                        *)
(*                                                                         *)
(* Characters are one-character strings; Code gives their byte value, so   *)
(* that the character tests of parse_unit and the char -> int conversions  *)
(* of emit_node and step are computed on numbers as the code does.  A C    *)
(* string is a sequence of characters; the byte after its last character   *)
(* is the terminating NUL (code 0).  Node and state indices are 0-based as *)
(* in the code; element k of a vector is element k+1 of the sequence.      *)
(***************************************************************************)
EXTENDS Integers, Sequences, FiniteSets, TLC

(* ------------------------------ bounds -------------------------------- *)

\* Longest pattern handed to the parser when only parsing and compiling are
\* explored.
MaxPatLen == 4

\* Longest pattern of a run of one engine.
MaxEnginePatLen == 4

\* Longest pattern of a run of one engine on a pattern of groups and
\* quantifiers.
MaxNestedPatLen == 5

\* Longest pattern and longest text of a run of two engines on one machine.
MaxSharedPatLen == 2
MaxSharedTextLen == 1

\* Longest subject text handed to the engine.
MaxTextLen == 2

\* Most entries cur_states may hold; an insert beyond it fails for lack of
\* memory.
MaxCur == 32

\* Most bytes after the terminating NUL of the text that a run may read
\* before it reaches memory that is not mapped.
MaxOverrun == 1

(* ---------------------------- characters ------------------------------ *)

\* The characters patterns are written with: two atoms, every structural
\* operator of the grammar, and one character the grammar has no case for.
PatChars == {"a", "b", "(", ")", "|", "*", "?", "+", "^", "$", "."}

\* Byte value of a character (ASCII).
Code(c) ==
    CASE c = "a" -> 97
      [] c = "b" -> 98
      [] c = "c" -> 99
      [] c = "(" -> 40
      [] c = ")" -> 41
      [] c = "|" -> 124
      [] c = "*" -> 42
      [] c = "?" -> 63
      [] c = "+" -> 43
      [] c = "^" -> 94
      [] c = "$" -> 36
      [] c = "." -> 46
      [] c = "_" -> 95

\* *pointer for a pointer at 0-based offset p of the C string s: the
\* terminating NUL when p is the length of s.
Deref(s, p) == IF p < Len(s) THEN Code(s[p + 1]) ELSE 0

\* <cctype> in the "C" locale.
isdigit(k) == k >= 48 /\ k <= 57
isalpha(k) == (k >= 65 /\ k <= 90) \/ (k >= 97 /\ k <= 122)
tolower(k) == IF k >= 65 /\ k <= 90 THEN k + 32 ELSE k

\* All sequences over S of length at most n.
SeqsUpTo(S, n) == UNION {[1..m -> S] : m \in 0..n}

(* ------------------------------ parse tree ---------------------------- *)

ALTERNATION == "ALTERNATION"
CONCATENATION == "CONCATENATION"
REPETITION == "REPETITION"
OPTIONAL_REPETITION == "OPTIONAL_REPETITION"
OPTIONAL == "OPTIONAL"
ATOM == "ATOM"

\* ParseTree::Flags, kept as the set of flags that are set.
BEGIN_ANCHORED == "BEGIN_ANCHORED"
END_ANCHORED == "END_ANCHORED"

\* nodes.emplace_back() value-initialises the node; the caller then sets
\* its kind and the members its kind uses.
Node(kind, first, second, atom) ==
    [kind |-> kind, first |-> first, second |-> second, atom |-> atom]

(* -------------------------------- parser ------------------------------ *)

\* A Parser: the pattern, the offset `pointer` into it and the node arena
\* it appends to.  Every parse function returns [ok, p]: its return value
\* and the parser as the call left it (a failed call keeps what it consumed
\* and appended).
Parser(txt, pointer, nodes) == [text |-> txt, pointer |-> pointer, nodes |-> nodes]

Cur(p) == Deref(p.text, p.pointer)
Advance(p) == [p EXCEPT !.pointer = @ + 1]
Emplace(p, node) == [p EXCEPT !.nodes = Append(@, node)]
Result(ok, p) == [ok |-> ok, p |-> p]

\* Each parse function is written as its call followed by an operator, named
\* after it, for what the function does with the call's result.
RECURSIVE parse_alternation(_), alternation_loop(_, _), parse_concatenation(_)
RECURSIVE concatenation_loop(_, _), parse_quantifier(_), parse_unit(_), parse_group(_)

parse(p) == parse_alternation(p)

\* parse_group after its call of parse: the closing parenthesis.
group_close(r) ==
    IF ~r.ok THEN Result(FALSE, r.p)
    ELSE IF Cur(r.p) # Code(")") THEN Result(FALSE, r.p)
    ELSE Result(TRUE, Advance(r.p))

parse_group(p) ==
    IF Cur(p) # Code("(") THEN Result(FALSE, p)
    ELSE group_close(parse(Advance(p)))

\* parse_unit after its call of parse_group.
unit_of_group(r) == IF ~r.ok THEN Result(FALSE, r.p) ELSE Result(TRUE, r.p)

parse_unit(p) ==
    IF isalpha(tolower(Cur(p))) \/ isdigit(Cur(p)) \/ Cur(p) = Code("_")
    THEN Result(TRUE, Advance(Emplace(p, Node(ATOM, 0, 0, Cur(p)))))
    ELSE IF Cur(p) = Code("(") THEN unit_of_group(parse_group(p))
    ELSE Result(FALSE, p)

\* case '?' / '*' / '+' of parse_quantifier: ++pointer and a node of `kind`
\* over the node the unit ended with.
quantified(p, kind) ==
    Result(TRUE, Emplace(Advance(p), Node(kind, Len(p.nodes) - 1, 0, 0)))

\* parse_quantifier after its call of parse_unit.
quantify(r) ==
    IF ~r.ok THEN Result(FALSE, r.p)
    ELSE CASE Cur(r.p) = Code("?") -> quantified(r.p, OPTIONAL)
           [] Cur(r.p) = Code("*") -> quantified(r.p, OPTIONAL_REPETITION)
           [] Cur(r.p) = Code("+") -> quantified(r.p, REPETITION)
           [] OTHER -> Result(TRUE, r.p)

parse_quantifier(p) == quantify(parse_unit(p))

\* The parser with the two-operand node `kind` appended: first is the
\* caller's `first`, second the last node before the append.
Combine(p, kind, first) == Emplace(p, Node(kind, first, Len(p.nodes) - 1, 0))

\* The body of while (parse_quantifier()) { ... } for the call's result r;
\* the failing call that ends the loop leaves its effects on the parser.
concatenation_body(r, first) ==
    IF r.ok
    THEN concatenation_loop(Combine(r.p, CONCATENATION, first), Len(r.p.nodes))
    ELSE Result(TRUE, r.p)

concatenation_loop(p, first) == concatenation_body(parse_quantifier(p), first)

\* parse_concatenation after its first call of parse_quantifier.
concatenation_first(r) ==
    IF ~r.ok THEN Result(FALSE, r.p)
    ELSE concatenation_loop(r.p, Len(r.p.nodes) - 1)

parse_concatenation(p) == concatenation_first(parse_quantifier(p))

\* The body of while (*pointer == '|') { ... } after its call of
\* parse_concatenation.
alternation_body(r, first) ==
    IF ~r.ok THEN Result(FALSE, r.p)
    ELSE alternation_loop(Combine(r.p, ALTERNATION, first), Len(r.p.nodes))

alternation_loop(p, first) ==
    IF Cur(p) # Code("|") THEN Result(TRUE, p)
    ELSE alternation_body(parse_concatenation(Advance(p)), first)

\* parse_alternation after its first call of parse_concatenation.
alternation_first(r) ==
    IF ~r.ok THEN Result(FALSE, r.p)
    ELSE alternation_loop(r.p, Len(r.p.nodes) - 1)

parse_alternation(p) == alternation_first(parse_concatenation(p))

\* while (*pointer != 0) { if '$' ... break; if (!parse()) return false; }
\* and the return true after it: [ok, p, flags].
RECURSIVE build_loop(_, _)

build_body(r, flags) ==
    IF ~r.ok THEN [ok |-> FALSE, p |-> r.p, flags |-> flags]
    ELSE build_loop(r.p, flags)

build_loop(p, flags) ==
    IF Cur(p) = 0 THEN [ok |-> TRUE, p |-> p, flags |-> flags]
    ELSE IF Cur(p) = Code("$")
    THEN [ok |-> TRUE, p |-> Advance(p), flags |-> flags \cup {END_ANCHORED}]
    ELSE build_body(parse(p), flags)

build_parse_tree(txt) ==
    IF Deref(txt, 0) = Code("^")
    THEN build_loop(Parser(txt, 1, <<>>), {BEGIN_ANCHORED})
    ELSE build_loop(Parser(txt, 0, <<>>), {})

(* --------------------------------- NFA -------------------------------- *)

\* Transition::symbol of an empty transition.
EPSILON == -1

\* The scan state gets one transition per value of a byte.
NumByteValues == 256

ACCEPTING == "ACCEPTING"

\* A State as its default member initialisers leave it.  The stamp
\* last_exec of every state is kept in the variable last_exec; id is only
\* printed by debug_print_states and is left out.
NewState == [flags |-> {}, transitions |-> <<>>]

\* State::find: the position (1-based) of the transition on `symbol` in the
\* state's transition list, 0 for nullptr.
find(state, symbol) ==
    LET hits == {k \in 1..Len(state.transitions) : state.transitions[k].symbol = symbol}
    IN  IF hits = {} THEN 0 ELSE CHOOSE k \in hits : \A m \in hits : k <= m

\* The futures of the transition on `symbol`, empty when there is none.
futures_of(state, symbol) ==
    IF find(state, symbol) = 0 THEN <<>>
    ELSE state.transitions[find(state, symbol)].futures

\* state.get(symbol).futures.push_back(dst): get appends a transition on
\* `symbol` when find has none.
get_push_back(state, symbol, dst) ==
    LET k == find(state, symbol)
    IN  IF k = 0
        THEN [state EXCEPT !.transitions =
                 Append(@, [symbol |-> symbol, futures |-> <<dst>>])]
        ELSE [state EXCEPT !.transitions[k].futures = Append(@, dst)]

\* machine->states[s].get(symbol).futures.push_back(dst)
Wire(states, s, symbol, dst) ==
    [states EXCEPT ![s + 1] = get_push_back(@, symbol, dst)]

(* ------------------------------- compiler ----------------------------- *)

NodeData(start_state, accept_state) ==
    [start_state |-> start_state, accept_state |-> accept_state]

\* The compiler while it runs: the machine's states and node_stack.
Back(c) == c.node_stack[Len(c.node_stack)]
PopBack(c) == [c EXCEPT !.node_stack = SubSeq(@, 1, Len(@) - 1)]

\* The fragment of a one-operand node: start and accept are the next two
\* new states.
UnaryStart(c) == Len(c.states)
UnaryAccept(c) == Len(c.states) + 1

\* optional_repetition_wiring with X.accept wired to the new accept, as
\* OPTIONAL wires it, instead of to the new start.
optional_repetition_wiring_to_accept(states, data, my_start, my_accept) ==
    Wire(Wire(Wire(states, my_start, EPSILON, data.start_state),
              my_start, EPSILON, my_accept),
         data.accept_state, EPSILON, my_accept)

\* case OPTIONAL_REPETITION of emit_node, its wiring: the new start gets
\* epsilon transitions to X.start and the new accept, X.accept gets one to
\* the new start.
optional_repetition_wiring(states, data, my_start, my_accept) ==
    Wire(Wire(Wire(states, my_start, EPSILON, data.start_state),
              my_start, EPSILON, my_accept),
         data.accept_state, EPSILON, my_start)

RECURSIVE emit_node(_, _, _)
emit_node(nodes, node, c) ==
    LET n == nodes[node + 1]
    IN  CASE n.kind = ALTERNATION ->
               LET c2 == emit_node(nodes, n.second, emit_node(nodes, n.first, c))
                   right_data == Back(c2)
                   left_data == Back(PopBack(c2))
                   my_start == Len(c2.states)
                   my_accept == Len(c2.states) + 1
                   s1 == c2.states \o <<NewState>>
                   s2 == Wire(Wire(s1, my_start, EPSILON, left_data.start_state),
                              my_start, EPSILON, right_data.start_state)
                   s3 == s2 \o <<NewState>>
                   s4 == Wire(s3, left_data.accept_state, EPSILON, my_accept)
                   s5 == Wire(s4, right_data.accept_state, EPSILON, my_accept)
               IN  [states |-> s5,
                    node_stack |-> Append(PopBack(PopBack(c2)).node_stack,
                                          NodeData(my_start, my_accept))]
          [] n.kind = CONCATENATION ->
               LET c2 == emit_node(nodes, n.second, emit_node(nodes, n.first, c))
                   right_data == Back(c2)
                   left_data == Back(PopBack(c2))
                   my_start == Len(c2.states)
                   my_accept == Len(c2.states) + 1
                   s1 == c2.states \o <<NewState>>
                   s2 == Wire(s1, my_start, EPSILON, left_data.start_state)
                   s3 == s2 \o <<NewState>>
                   s4 == Wire(s3, left_data.accept_state, EPSILON, right_data.start_state)
                   s5 == Wire(s4, right_data.accept_state, EPSILON, my_accept)
               IN  [states |-> s5,
                    node_stack |-> Append(PopBack(PopBack(c2)).node_stack,
                                          NodeData(my_start, my_accept))]
          [] n.kind = REPETITION ->
               LET c1 == emit_node(nodes, n.first, c)
                   data == Back(c1)
                   s1 == c1.states \o <<NewState, NewState>>
                   s2 == Wire(s1, UnaryStart(c1), EPSILON, data.start_state)
                   s3 == Wire(Wire(s2, data.accept_state, EPSILON, data.start_state),
                              data.accept_state, EPSILON, UnaryAccept(c1))
               IN  [states |-> s3,
                    node_stack |-> Append(PopBack(c1).node_stack,
                                          NodeData(UnaryStart(c1), UnaryAccept(c1)))]
          [] n.kind = OPTIONAL_REPETITION ->
               LET c1 == emit_node(nodes, n.first, c)
                   data == Back(c1)
                   s1 == c1.states \o <<NewState, NewState>>
               IN  [states |-> optional_repetition_wiring(s1, data, UnaryStart(c1),
                                                          UnaryAccept(c1)),
                    node_stack |-> Append(PopBack(c1).node_stack,
                                          NodeData(UnaryStart(c1), UnaryAccept(c1)))]
          [] n.kind = OPTIONAL ->
               LET c1 == emit_node(nodes, n.first, c)
                   data == Back(c1)
                   s1 == c1.states \o <<NewState, NewState>>
                   s2 == Wire(Wire(s1, UnaryStart(c1), EPSILON, data.start_state),
                              UnaryStart(c1), EPSILON, UnaryAccept(c1))
                   s3 == Wire(s2, data.accept_state, EPSILON, UnaryAccept(c1))
               IN  [states |-> s3,
                    node_stack |-> Append(PopBack(c1).node_stack,
                                          NodeData(UnaryStart(c1), UnaryAccept(c1)))]
          [] n.kind = ATOM ->
               LET my_start == Len(c.states)
                   my_accept == Len(c.states) + 1
                   s1 == c.states \o <<NewState, NewState>>
               IN  [states |-> Wire(s1, my_start, n.atom, my_accept),
                    node_stack |-> Append(c.node_stack, NodeData(my_start, my_accept))]

\* for (int i = 0; i < 256; i++) states[start_state].get(i).futures.push_back(start_state)
\* on the state just emplaced: it has no transition yet, so every get(i)
\* appends the transition on i.
scan_loop(states, start_state) ==
    [states EXCEPT ![start_state + 1].transitions =
        @ \o [k \in 1..NumByteValues |-> [symbol |-> k - 1, futures |-> <<start_state>>]]]

\* compile_tree from "Take the outermost node" on, `last` being the
\* fragment popped from node_stack: the machine [states, start_state].
connect(states, last, flags) ==
    LET anchored == BEGIN_ANCHORED \in flags
        scan == Len(states)
        s1 == IF anchored THEN states
              ELSE Wire(scan_loop(states \o <<NewState>>, scan),
                        scan, EPSILON, last.start_state)
        start_state == IF anchored THEN last.start_state ELSE scan
        accept_state == Len(s1)
        s2 == s1 \o <<[NewState EXCEPT !.flags = {ACCEPTING}]>>
        s3 == IF END_ANCHORED \in flags
              THEN Wire(s2, last.accept_state, 0, accept_state)
              ELSE Wire(s2, last.accept_state, EPSILON, accept_state)
    IN  [states |-> s3, start_state |-> start_state]

\* compile_tree on a tree that has nodes.
compile_tree(t) ==
    LET c == emit_node(t.nodes, Len(t.nodes) - 1, [states |-> <<>>, node_stack |-> <<>>])
    IN  connect(c.states, Back(c), t.flags)

(* ------------------------------- state -------------------------------- *)

VARIABLES
    stage,       \* how far the pipeline of main() has come
    pattern,     \* the pattern text handed to the Parser
    pointer,     \* Parser::pointer after build_parse_tree
    tree,        \* the ParseTree: [flags, nodes]
    success,     \* what build_parse_tree returned
    machine,     \* the NFA: [states, start_state]
    compile_ub,  \* the undefined operations compile_tree has executed
    last_exec,   \* NFA::State::last_exec of every state of the machine
    text,        \* the subject text handed to execute
    pc,          \* per engine: where its execute call is
    counter,     \* per engine: NFAEngine::counter
    cur_states,  \* per engine: the vector cur_states points to
    next_states, \* per engine: the vector next_states points to
    ptr,         \* per engine: NFAEngine::ptr, as an offset into text
    i,           \* per engine: the loop index of step
    sym,         \* per engine: *ptr as the current step reads it
    overran,     \* per engine: the run has read a byte after the NUL
    accepted     \* per engine: the local `accepted` of execute

pipeline_vars == <<stage, pattern, pointer, tree, success, machine, compile_ub>>
engine_vars == <<last_exec, text, pc, counter, cur_states, next_states, ptr, i, sym,
                 overran, accepted>>
vars == <<pipeline_vars, engine_vars>>

\* The engines that may run on the machine.
Engines == {1, 2}

\* The characters subject texts are written with.
TextChars == {"a", "b"}

\* What a byte read after the terminating NUL may hold, as the int that
\* `*ptr` converts to: NUL, an atom of the pattern, a byte no state has a
\* transition on (a negative char).
GarbageSyms == {0, Code("a"), -128}

Patterns == SeqsUpTo(PatChars, MaxPatLen)
Texts == SeqsUpTo(TextChars, MaxTextLen)

\* The patterns the engine is run on: one atom and every operator, with '$'
\* nowhere but at the end (build_parse_tree stops reading at the first
\* top-level '$', so what follows one never reaches the tree).
EnginePatChars == {"a", "(", ")", "|", "*", "?", "+", "^", "$"}
DollarOnlyLast(s) == \A k \in 1..Len(s) - 1 : s[k] # "$"
EnginePatterns(n) == {s \in SeqsUpTo(EnginePatChars, n) : DollarOnlyLast(s)}

\* Patterns of one atom, groups and quantifiers.
NestedPatChars == {"a", "(", ")", "*", "?", "+"}

\* What compile_tree may find where it reads outside the empty node arena
\* and the empty node_stack: an ATOM node for 'a', or a node of no kind
\* and then one of these fragments.
GarbageAtoms == {Code("a")}
GarbageNodeData == {NodeData(s, a) : s \in 0..1, a \in 0..1}

\* `second` is the pc of engine 2: "idle" when a second execute call is to
\* run, "off" when there is none.
EngineInit(second) ==
    /\ last_exec = <<>>
    /\ text = <<>>
    /\ pc = [e \in Engines |-> IF e = 1 THEN "idle" ELSE second]
    /\ counter = [e \in Engines |-> 0]
    /\ cur_states = [e \in Engines |-> <<>>]
    /\ next_states = [e \in Engines |-> <<>>]
    /\ ptr = [e \in Engines |-> 0]
    /\ i = [e \in Engines |-> 0]
    /\ sym = [e \in Engines |-> 0]
    /\ overran = [e \in Engines |-> FALSE]
    /\ accepted = [e \in Engines |-> FALSE]

PipelineInit(pats) ==
    /\ stage = "start"
    /\ pattern \in pats
    /\ pointer = 0
    /\ tree = [flags |-> {}, nodes |-> <<>>]
    /\ success = FALSE
    /\ machine = [states |-> <<>>, start_state |-> 0]
    /\ compile_ub = {}

Init == PipelineInit(EnginePatterns(MaxEnginePatLen)) /\ EngineInit("off")

BuildParseTree ==
    /\ stage = "start"
    /\ LET r == build_parse_tree(pattern)
       IN  /\ pointer' = r.p.pointer
           /\ tree' = [flags |-> r.flags, nodes |-> r.p.nodes]
           /\ success' = r.ok
    /\ stage' = "parsed"
    /\ UNCHANGED <<pattern, machine, compile_ub, engine_vars>>

Compile ==
    /\ stage = "parsed"
    /\ success
    /\ tree.nodes # <<>>
    /\ machine' = compile_tree(tree)
    /\ last_exec' = [k \in 1..Len(machine'.states) |-> 0]
    /\ stage' = "compiled"
    /\ UNCHANGED <<pattern, pointer, tree, success, compile_ub>>
    /\ UNCHANGED <<text, pc, counter, cur_states, next_states, ptr, i, sym, overran, accepted>>

\* Every index the machine holds is an index of one of its states.
WellFormed(m) ==
    /\ m.start_state < Len(m.states)
    /\ \A k \in 1..Len(m.states) : \A t \in 1..Len(m.states[k].transitions) :
          \A f \in 1..Len(m.states[k].transitions[t].futures) :
              m.states[k].transitions[t].futures[f] < Len(m.states)

\* The states connect() works on for a fragment `last` that node_stack
\* never held: connect writes through states[last.accept_state].
ConnectInRange(last, flags) ==
    last.accept_state < (IF BEGIN_ANCHORED \in flags THEN 1 ELSE 2)

\* compile_tree on a tree without nodes.  nodes.size() - 1 wraps around and
\* emit_node reads nodes[4294967295] of an empty vector: undefined.  The
\* read faults, or it yields some node: an ATOM, for which emit_node pushes
\* a fragment, or a node whose kind matches no case, for which emit_node
\* pushes nothing and compile_tree takes back() of the empty node_stack:
\* undefined again, yielding some fragment.
CompileEmpty ==
    /\ stage = "parsed"
    /\ success
    /\ tree.nodes = <<>>
    /\ \/ /\ stage' = "crashed"
          /\ compile_ub' = {"nodes[size-1] of empty nodes"}
          /\ UNCHANGED <<machine, last_exec>>
       \/ /\ \E atom \in GarbageAtoms :
                machine' = compile_tree([tree EXCEPT !.nodes = <<Node(ATOM, 0, 0, atom)>>])
          /\ last_exec' = [k \in 1..Len(machine'.states) |-> 0]
          /\ stage' = "compiled"
          /\ compile_ub' = {"nodes[size-1] of empty nodes"}
       \/ /\ compile_ub' = {"nodes[size-1] of empty nodes", "back() of empty node_stack"}
          /\ \E last \in GarbageNodeData :
                IF ConnectInRange(last, tree.flags)
                   /\ WellFormed(connect(<<>>, last, tree.flags))
                THEN /\ machine' = connect(<<>>, last, tree.flags)
                     /\ last_exec' = [k \in 1..Len(machine'.states) |-> 0]
                     /\ stage' = "compiled"
                ELSE /\ stage' = "crashed"
                     /\ UNCHANGED <<machine, last_exec>>
    /\ UNCHANGED <<pattern, pointer, tree, success>>
    /\ UNCHANGED <<text, pc, counter, cur_states, next_states, ptr, i, sym, overran, accepted>>

(* -------------------------------- engine ------------------------------ *)

\* NFAEngine::accepting
accepting(e) ==
    \E k \in 1..Len(cur_states[e]) :
        ACCEPTING \in machine.states[cur_states[e][k] + 1].flags

\* execute up to its loop: counter, both vectors and every stamp are reset,
\* next_states holds the start state.
Execute(e) ==
    /\ stage = "compiled"
    /\ pc[e] = "idle"
    /\ \E t \in Texts :
          /\ Len(t) <= MaxSharedTextLen \/ pc[2] = "off"
          /\ (\A f \in Engines : pc[f] \in {"idle", "off"}) \/ t = text
          /\ text' = t
    /\ counter' = [counter EXCEPT ![e] = 0]
    /\ cur_states' = [cur_states EXCEPT ![e] = <<>>]
    /\ next_states' = [next_states EXCEPT ![e] = <<machine.start_state>>]
    /\ last_exec' = [k \in 1..Len(machine.states) |-> 0]
    /\ ptr' = [ptr EXCEPT ![e] = 0]
    /\ pc' = [pc EXCEPT ![e] = "loop"]
    /\ UNCHANGED <<pipeline_vars, i, sym, overran, accepted>>

\* The loop condition of execute is false: execute returns `accepted`.
Return(e) ==
    /\ pc[e] = "loop"
    /\ accepting(e) \/ next_states[e] = <<>>
    /\ accepted' = [accepted EXCEPT ![e] = accepting(e)]
    /\ pc' = [pc EXCEPT ![e] = "done"]
    /\ UNCHANGED <<pipeline_vars, last_exec, text, counter, cur_states, next_states, ptr,
                   i, sym, overran>>

\* The loop condition of execute is true: swap, clear next_states, enter
\* step (++counter) and read *ptr, which every iteration of step's loop
\* reads again unchanged.  Past the NUL the read is out of the text's
\* bounds: it yields whatever byte is there.
EnterStep(e) ==
    /\ pc[e] = "loop"
    /\ ~accepting(e)
    /\ next_states[e] # <<>>
    /\ ptr[e] <= Len(text) + MaxOverrun
    /\ cur_states' = [cur_states EXCEPT ![e] = next_states[e]]
    /\ next_states' = [next_states EXCEPT ![e] = <<>>]
    /\ counter' = [counter EXCEPT ![e] = @ + 1]
    /\ i' = [i EXCEPT ![e] = 0]
    /\ IF ptr[e] <= Len(text)
       THEN /\ sym' = [sym EXCEPT ![e] = Deref(text, ptr[e])]
            /\ UNCHANGED overran
       ELSE /\ \E g \in GarbageSyms : sym' = [sym EXCEPT ![e] = g]
            /\ overran' = [overran EXCEPT ![e] = TRUE]
    /\ pc' = [pc EXCEPT ![e] = "step"]
    /\ UNCHANGED <<pipeline_vars, last_exec, text, ptr, accepted>>

\* The read of *ptr past the NUL touches memory that is not mapped.
Fault(e) ==
    /\ pc[e] = "loop"
    /\ ~accepting(e)
    /\ next_states[e] # <<>>
    /\ ptr[e] > Len(text)
    /\ overran' = [overran EXCEPT ![e] = TRUE]
    /\ pc' = [pc EXCEPT ![e] = "fault"]
    /\ UNCHANGED <<pipeline_vars, last_exec, text, counter, cur_states, next_states, ptr,
                   i, sym, accepted>>

\* The stamp test-and-set of step over the futures `fs`, from stamps `le`
\* and next vector `nx`: [last_exec, next_states].
RECURSIVE push_futures(_, _, _, _)

\* push_futures without the test of the stamp: every future is pushed.
push_futures_unstamped(fs, le, nx, cnt) ==
    [last_exec |-> [k \in 1..Len(le) |-> IF \E f \in 1..Len(fs) : fs[f] + 1 = k THEN cnt ELSE le[k]],
     next_states |-> nx \o fs]

push_futures(fs, le, nx, cnt) ==
    IF fs = <<>> THEN [last_exec |-> le, next_states |-> nx]
    ELSE IF le[Head(fs) + 1] # cnt
    THEN push_futures(Tail(fs), [le EXCEPT ![Head(fs) + 1] = cnt], Append(nx, Head(fs)), cnt)
    ELSE push_futures(Tail(fs), le, nx, cnt)

\* One iteration of the loop of step, on (*cur_states)[i].
StepState(e) ==
    /\ pc[e] = "step"
    /\ i[e] < Len(cur_states[e])
    /\ LET state == machine.states[cur_states[e][i[e] + 1] + 1]
           eps == futures_of(state, EPSILON)
           r == push_futures(futures_of(state, sym[e]), last_exec, next_states[e],
                             counter[e])
       IN  IF Len(cur_states[e]) + Len(eps) > MaxCur
           THEN /\ pc' = [pc EXCEPT ![e] = "exhausted"]
                /\ UNCHANGED <<cur_states, next_states, last_exec, i>>
           ELSE /\ cur_states' = [cur_states EXCEPT ![e] = @ \o eps]
                /\ next_states' = [next_states EXCEPT ![e] = r.next_states]
                /\ last_exec' = r.last_exec
                /\ i' = [i EXCEPT ![e] = @ + 1]
                /\ UNCHANGED pc
    /\ UNCHANGED <<pipeline_vars, text, counter, ptr, sym, overran, accepted>>

\* The loop of step is over: ++ptr, back to the loop condition of execute.
StepEnd(e) ==
    /\ pc[e] = "step"
    /\ i[e] >= Len(cur_states[e])
    /\ ptr' = [ptr EXCEPT ![e] = @ + 1]
    /\ pc' = [pc EXCEPT ![e] = "loop"]
    /\ UNCHANGED <<pipeline_vars, last_exec, text, counter, cur_states, next_states, i, sym,
                   overran, accepted>>

Run(e) == Execute(e) \/ Return(e) \/ EnterStep(e) \/ Fault(e) \/ StepState(e) \/ StepEnd(e)

(* ---------------------------- specifications -------------------------- *)

\* main(): parse, compile, one execute.
Next == BuildParseTree \/ Compile \/ CompileEmpty \/ Run(1)

Spec == Init /\ [][Next]_vars

\* main() on the patterns of groups and quantifiers.
NestedInit == PipelineInit(SeqsUpTo(NestedPatChars, MaxNestedPatLen)) /\ EngineInit("off")

NestedSpec == NestedInit /\ [][Next]_vars

\* Parsing and compiling alone, over every pattern of PatChars.
ParserInit == PipelineInit(Patterns) /\ EngineInit("off")

ParserNext == BuildParseTree \/ Compile \/ CompileEmpty

ParserSpec == ParserInit /\ [][ParserNext]_vars

\* Two execute calls, one per engine, on the same machine and text, their
\* steps interleaved; the machine is one compiled from a tree with nodes.
SharedInit == PipelineInit(EnginePatterns(MaxSharedPatLen)) /\ EngineInit("idle")

SharedNext == BuildParseTree \/ Compile \/ Run(1) \/ Run(2)

SharedSpec == SharedInit /\ [][SharedNext]_vars

(* ------------------------------- claims ------------------------------- *)

Range(q) == {q[k] : k \in 1..Len(q)}

\* The tree has nodes and compile_tree ran on it without undefined
\* behaviour.
Compiled == stage = "compiled" /\ compile_ub = {}

\* The nodes of the subtree of node k.
RECURSIVE Subtree(_, _)
Subtree(nodes, k) ==
    LET n == nodes[k + 1]
    IN  CASE n.kind = ATOM -> {k}
          [] n.kind \in {ALTERNATION, CONCATENATION} ->
               {k} \cup Subtree(nodes, n.first) \cup Subtree(nodes, n.second)
          [] OTHER -> {k} \cup Subtree(nodes, n.first)

\* The parentheses of s from position k on are balanced, d being open.
RECURSIVE BalancedFrom(_, _, _)
BalancedFrom(s, k, d) ==
    IF k > Len(s) THEN d = 0
    ELSE IF s[k] = "(" THEN BalancedFrom(s, k + 1, d + 1)
    ELSE IF s[k] = ")" THEN d > 0 /\ BalancedFrom(s, k + 1, d - 1)
    ELSE BalancedFrom(s, k + 1, d)

Balanced(s) == BalancedFrom(s, 1, 0)

\* The number of parentheses open before position k of s.
RECURSIVE DepthBefore(_, _)
DepthBefore(s, k) ==
    IF k <= 1 THEN 0
    ELSE DepthBefore(s, k - 1)
         + (IF s[k - 1] = "(" THEN 1 ELSE IF s[k - 1] = ")" THEN -1 ELSE 0)

\* s has a character after a '$' that is inside no parentheses.
TrailsTopLevelDollar(s) ==
    \E k \in 1..Len(s) - 1 : s[k] = "$" /\ DepthBefore(s, k) = 0

\* The characters lo+1..hi of t are a word of the language of node k.
RECURSIVE InLanguage(_, _, _, _, _)
InLanguage(nodes, k, t, lo, hi) ==
    LET n == nodes[k + 1]
    IN  CASE n.kind = ATOM -> hi = lo + 1 /\ Code(t[hi]) = n.atom
          [] n.kind = CONCATENATION ->
               \E mid \in lo..hi : /\ InLanguage(nodes, n.first, t, lo, mid)
                                   /\ InLanguage(nodes, n.second, t, mid, hi)
          [] n.kind = ALTERNATION ->
               \/ InLanguage(nodes, n.first, t, lo, hi)
               \/ InLanguage(nodes, n.second, t, lo, hi)
          [] n.kind = OPTIONAL -> lo = hi \/ InLanguage(nodes, n.first, t, lo, hi)
          [] n.kind = OPTIONAL_REPETITION ->
               \/ lo = hi
               \/ \E mid \in lo + 1..hi : /\ InLanguage(nodes, n.first, t, lo, mid)
                                         /\ InLanguage(nodes, k, t, mid, hi)
          [] n.kind = REPETITION ->
               \/ InLanguage(nodes, n.first, t, lo, hi)
               \/ \E mid \in lo + 1..hi - 1 : /\ InLanguage(nodes, n.first, t, lo, mid)
                                             /\ InLanguage(nodes, k, t, mid, hi)

\* t contains a substring in the language of the tree's root, from offset
\* 0 when begin-anchored and up to the end of t when end-anchored.
ContainsMatch(tr, t) ==
    \E lo \in 0..Len(t) : \E hi \in lo..Len(t) :
        /\ BEGIN_ANCHORED \in tr.flags => lo = 0
        /\ END_ANCHORED \in tr.flags => hi = Len(t)
        /\ InLanguage(tr.nodes, Len(tr.nodes) - 1, t, lo, hi)

\* The states epsilon transitions lead to from the states of S, S included.
RECURSIVE EpsilonClosure(_)
EpsilonClosure(S) ==
    LET more == S \cup UNION {Range(futures_of(machine.states[q + 1], EPSILON)) : q \in S}
    IN  IF more = S THEN S ELSE EpsilonClosure(more)

\* State q lies on a cycle of epsilon transitions.
OnEpsilonCycle(q) ==
    q \in EpsilonClosure(Range(futures_of(machine.states[q + 1], EPSILON)))

\* What one execute call alone returns from the frontier N with the
\* pointer at offset k: TRUE, FALSE, "diverges" when the closure of N holds
\* an epsilon cycle, "undefined" when the verdict hangs on a byte after
\* the NUL.
RECURSIVE Isolated(_, _)
Isolated(N, k) ==
    LET F == EpsilonClosure(N)
        moved == UNION {Range(futures_of(machine.states[q + 1], Deref(text, k))) : q \in F}
    IN  IF \E q \in F : OnEpsilonCycle(q) THEN "diverges"
        ELSE IF \E q \in F : ACCEPTING \in machine.states[q + 1].flags THEN TRUE
        ELSE IF k > Len(text) THEN "undefined"
        ELSE IF moved = {} THEN FALSE
        ELSE Isolated(moved, k + 1)

IsolatedVerdict == Isolated({machine.start_state}, 0)

\* An execute call is over: it returned, or it ended without returning.
Over(e) == pc[e] \in {"done", "fault", "exhausted"}

\* C1: on the machine compiled from an accepted pattern with a non-empty
\* tree, execute returns, and returns true exactly when the text contains
\* a substring in the pattern's language (from offset 0 if begin-anchored,
\* to the end of the text if end-anchored).
C1_VerdictIsMembership ==
    \A e \in Engines :
        (Compiled /\ Over(e)) =>
            (pc[e] = "done" /\ accepted[e] = ContainsMatch(tree, text))

\* C2: on the machine compiled from an accepted pattern, the expansion of
\* cur_states by epsilon transitions inside step comes to an end: it never
\* outgrows the memory of the vector.
C2_ClosureReachesFixedPoint ==
    \A e \in Engines : Compiled => pc[e] # "exhausted"

\* The expansion outgrows the vector only where cur_states holds a state
\* on an epsilon cycle: MaxCur cuts no expansion that would have ended.
ExhaustedOnlyOnEpsilonCycle ==
    \A e \in Engines :
        pc[e] = "exhausted" => \E q \in Range(cur_states[e]) : OnEpsilonCycle(q)

\* C3: an execute call that runs while another one runs on the same
\* machine and text returns what a call running alone returns.
C3_SharedSameAsIsolated ==
    \A e \in Engines :
        (Compiled /\ pc[e] = "done" /\ IsolatedVerdict \in BOOLEAN) =>
            accepted[e] = IsolatedVerdict

\* C4: build_parse_tree returns false for every pattern whose parentheses
\* are not balanced. The patterns with a '$' are left to C6: there the
\* parser stops at the '$' and sees no parenthesis after it.
C4_UnbalancedRejected ==
    (stage # "start" /\ "$" \notin Range(pattern) /\ ~Balanced(pattern)) => ~success

\* C5: compile_tree on a tree without nodes reads no node of the empty
\* arena, takes no fragment from the empty node_stack, and ends with a
\* machine.
C5_EmptyTreeCompiles ==
    (stage \in {"compiled", "crashed"} /\ tree.nodes = <<>>) =>
        (stage = "compiled" /\ compile_ub = {})

\* C6: build_parse_tree returns false for every pattern that has a
\* character after a top-level '$'.
C6_TrailingAfterDollarRejected ==
    (stage # "start" /\ TrailsTopLevelDollar(pattern)) => ~success

\* C7: during an execute run the pointer never moves past the terminating
\* NUL of the text, and no step reads a byte after it.
C7_PointerStaysInText ==
    \A e \in Engines :
        (Compiled /\ pc[e] \notin {"idle", "off"}) =>
            (ptr[e] <= Len(text) /\ ~overran[e])

\* C8: after a build_parse_tree that returns true with a non-empty arena,
\* every node of the arena is in the subtree of the highest-indexed node.
C8_LastNodeIsRoot ==
    (stage # "start" /\ success /\ tree.nodes # <<>>) =>
        Subtree(tree.nodes, Len(tree.nodes) - 1) = 0..Len(tree.nodes) - 1

\* The compiler emit_node starts from in compile_tree.
EmptyCompiler == [states |-> <<>>, node_stack |-> <<>>]

\* The epsilon futures, after emit_node of node k, of state q.
EpsilonWiring(k, q) ==
    futures_of(emit_node(tree.nodes, k, EmptyCompiler).states[q + 1], EPSILON)

\* The fragment emit_node pushes for node k.
Fragment(k) == Back(emit_node(tree.nodes, k, EmptyCompiler))

StarNodes == {k \in 0..Len(tree.nodes) - 1 : tree.nodes[k + 1].kind = OPTIONAL_REPETITION}

\* C9, as claimed: for an OPTIONAL_REPETITION node over X, emit_node gives
\* the new start the epsilon futures X.start and new accept, and X.accept
\* epsilon futures to both the new start and the new accept.
C9_StarWiringAsClaimed ==
    Compiled =>
        \A k \in StarNodes :
            LET X == Fragment(tree.nodes[k + 1].first)
            IN  /\ EpsilonWiring(k, Fragment(k).start_state)
                     = <<X.start_state, Fragment(k).accept_state>>
                /\ {Fragment(k).start_state, Fragment(k).accept_state}
                     \subseteq Range(EpsilonWiring(k, X.accept_state))

\* C9, amended: for an OPTIONAL_REPETITION node over X, emit_node gives
\* the new start the epsilon futures X.start and new accept, and X.accept
\* one epsilon future, the new start.
C9_StarWiring ==
    Compiled =>
        \A k \in StarNodes :
            LET X == Fragment(tree.nodes[k + 1].first)
            IN  /\ EpsilonWiring(k, Fragment(k).start_state)
                     = <<X.start_state, Fragment(k).accept_state>>
                /\ EpsilonWiring(k, X.accept_state) = <<Fragment(k).start_state>>

\* A machine was compiled from a tree whose root is an OPTIONAL_REPETITION
\* node, and holds that node's wiring.
C9_Witness ==
    /\ Compiled
    /\ Len(tree.nodes) - 1 \in StarNodes
    /\ LET root == Fragment(Len(tree.nodes) - 1)
       IN  Range(futures_of(machine.states[root.start_state + 1], EPSILON))
               = {Fragment(tree.nodes[Len(tree.nodes)].first).start_state, root.accept_state}

NoDuplicates(q) == \A m, n \in 1..Len(q) : q[m] = q[n] => m = n

\* C10: in a run of one execute call, next_states holds every state index
\* at most once, at every point of every step; the counter of a step is at
\* least 1 and no stamp is ahead of it.
C10_NextHoldsEachStateOnce ==
    \A e \in Engines :
        pc[2] = "off" =>
            /\ NoDuplicates(next_states[e])
            /\ pc[e] = "step" => counter[e] >= 1
            /\ pc[e] \notin {"idle", "off"} =>
                   \A q \in 1..Len(last_exec) : last_exec[q] \in 0..counter[e]

\* A step has ended in which cur_states held twice a state with a
\* transition on the symbol read, whose future is in next_states.
C10_Witness ==
    /\ pc[1] = "step"
    /\ i[1] = Len(cur_states[1])
    /\ \E m, n \in 1..Len(cur_states[1]) :
          /\ m < n
          /\ cur_states[1][m] = cur_states[1][n]
          /\ futures_of(machine.states[cur_states[1][m] + 1], sym[1]) # <<>>
          /\ Range(futures_of(machine.states[cur_states[1][m] + 1], sym[1]))
                \subseteq Range(next_states[1])

====
